---- MODULE Spec2Model ----
(***************************************************************************)
(* Model of matchbot's run_daily.py: the collector                         *)
(* (collect_matches_for_range), the status predicates it classifies with,  *)
(* the provider fetches it calls and the control flow of main.             *)
(*                                                                         *)
(* Instants are whole minutes counted from Monday 00:00 UTC of the week    *)
(* of the run.  A JSON value that may be null is an option: <<>> is null   *)
(* (Python None) and <<v>> is the value v.                                 *)
(***************************************************************************)
EXTENDS Integers, Sequences, FiniteSets, TLC

VARIABLES
    mpc,                \* position of main: "none" when the collector is called directly
    wd,                 \* now_london.weekday(), Mon = 0
    tod,                \* minute of the day of now_london
    sent,               \* texts handed to send_telegram_chunks, in order
    now_utc,
    upcoming_start_utc,
    upcoming_end_utc,
    results_start_utc,
    results_end_utc,
    leagues_meta,       \* sequence of [name, id, canon]
    dates,              \* sequence of day numbers (the "%Y-%m-%d" strings)
    cpc,                \* position of collect_matches_for_range
    calls,              \* number of calls of collect_matches_for_range in this run
    budget,             \* events the provider may still return in this call
    lg,                 \* number of leagues of leagues_meta already started
    di,                 \* number of dates already fetched for the current league
    ratings,            \* team name -> rating, in tenths of a rating point
    seen_event_ids,
    ev,                 \* the event of the last iteration of "for ev in events"
    upcoming_rows,
    live_rows,
    result_rows,
    eval_rows,
    all_csv_rows,
    correct_eval,
    total_eval,
    fn,                 \* the call of a pure function examined on its own: [name, args, ret]
    spc,                \* position of send_telegram_chunks
    text,               \* its local text: a sequence of characters
    chunks,             \* its local chunks
    posted              \* the messages handed to send_telegram_message, in order

vars == <<mpc, wd, tod, sent, now_utc, upcoming_start_utc, upcoming_end_utc,
          results_start_utc, results_end_utc, leagues_meta, dates, cpc, calls,
          budget, lg, di, ratings, seen_event_ids, ev, upcoming_rows,
          live_rows, result_rows, eval_rows, all_csv_rows, correct_eval,
          total_eval, fn, spc, text, chunks, posted>>

params == <<now_utc, upcoming_start_utc, upcoming_end_utc, results_start_utc,
            results_end_utc, leagues_meta, dates>>

mainVars == <<mpc, wd, tod, sent>>

buckets == <<upcoming_rows, live_rows, result_rows, eval_rows, all_csv_rows,
             correct_eval, total_eval>>

chunkVars == <<spc, text, chunks, posted>>

(***************************************************************************)
(* Bounds of the model.                                                    *)
(***************************************************************************)
\* events the provider returns during one directly called collector run
MaxEvents == 2
\* events the provider returns during one collector pass started by main
MaxMainEvents == 1
\* largest of the values pick_from_probs is examined on
MaxProb == 4
\* characters of the texts send_telegram_chunks is examined on
MaxTextLen == 7
\* TELEGRAM_MAX_LEN (3800 in the source) brought down to the texts of the
\* model
TELEGRAM_MAX_LEN == 3
\* rows of the league tables sportsdb_fetch_table_ratings is examined on
MaxRows == 2

(***************************************************************************)
(* Program constants.                                                      *)
(***************************************************************************)
HOME_ADV_ELO == 55
LIVE_GRACE_MINUTES == 120
RESULTS_LOOKBACK_HOURS == 36
RUN_DAYS == {3, 4, 5, 6}
LEAGUE_NAMES == <<"Premier League", "EFL Championship">>

MinutesPerHour == 60
MinutesPerDay == 1440

None == <<>>
Some(x) == <<x>>
Val(o) == o[1]

Max2(a, b) == IF a >= b THEN a ELSE b
Min2(a, b) == IF a <= b THEN a ELSE b

(***************************************************************************)
(* BASIC HELPERS                                                           *)
(***************************************************************************)
\* int(float(s)) for the numeric strings of the model; ValueError otherwise
IntOfString(s) ==
    CASE s = "0" -> Some(0)
      [] s = "1" -> Some(1)
      [] s = "2" -> Some(2)
      [] s = "10" -> Some(10)
      [] s = "20" -> Some(20)
      [] s = "4328" -> Some(4328)
      [] s = "4329" -> Some(4329)
      [] OTHER -> None

\* safe_int: 0 for None, "" and whatever int(float(x)) rejects
safe_int(x) ==
    IF x = None \/ x = Some("") THEN 0
    ELSE IF IntOfString(Val(x)) = None THEN 0
    ELSE Val(IntOfString(Val(x)))

\* norm: (s or "").strip().lower(), on the strings of the model
norm(s) ==
    CASE s = "FT" -> "ft"
      [] s = " Team A " -> "team a"
      [] s = "Team A" -> "team a"
      [] s = "Team B" -> "team b"
      [] OTHER -> s

\* "x or ''" on an optional string
OrEmpty(x) == IF x = None THEN "" ELSE Val(x)

\* datetime.strptime of the clock strings of the model: minute of the day
\* under "%H:%M:%S", else under "%H:%M", else failure
ParseClock(s) ==
    CASE s = "15:00:00" -> Some(900)
      [] s = "20:00" -> Some(1200)
      [] OTHER -> None

\* the "%Y-%m-%d" strings of the week of the run, as day numbers (Mon = 0)
ParseDate(s) ==
    CASE s = "2024-01-05" -> Some(4)
      [] s = "2024-01-06" -> Some(5)
      [] OTHER -> None

\* parse_event_dt_utc: None without a date or when neither format parses;
\* a missing time is midnight
parse_event_dt_utc(date_str, time_str) ==
    IF date_str = None \/ date_str = Some("") THEN None
    ELSE LET t == IF time_str = None \/ time_str = Some("") THEN Some(0)
                  ELSE ParseClock(Val(time_str))
             d == ParseDate(Val(date_str))
         IN IF t = None \/ d = None THEN None
            ELSE Some(Val(d) * MinutesPerDay + Val(t))

\* offset of Europe/London from UTC in the week of the run (January: GMT)
LondonOffset(dt) == 0

\* dt.astimezone(LONDON).strftime("%Y-%m-%d %H:%M"): <<day, minute of day>>,
\* ordered as the strings are
LondonStr(dt) ==
    <<(dt + LondonOffset(dt)) \div MinutesPerDay,
      (dt + LondonOffset(dt)) % MinutesPerDay>>

(***************************************************************************)
(* PREDICTION MODEL                                                        *)
(***************************************************************************)
\* the result of probs_1x2 where (elo_home + HOME_ADV_ELO) - elo_away is
\* gap tenths of a point, tabulated from the float arithmetic of the source
\* (win_prob_from_elo, the clamped draw decay, the normalisation by s) at the
\* gaps the ratings of the model produce; each value is the probability
\* times 10^9, rounded to the nearest unit
ProbsAtGap(gap) ==
    CASE gap = -5450 -> <<38268071, 80000000, 881731929>>
      [] gap = -4875 -> <<52427116, 80000000, 867572884>>
      [] gap = -4300 -> <<71400730, 80000000, 848599270>>
      [] gap = -3950 -> <<85850691, 80000000, 834149309>>
      [] gap = -3375 -> <<115312701, 80000000, 804687299>>
      [] gap = -3000 -> <<138901193, 80000000, 781098807>>
      [] gap = -2450 -> <<177831728, 93534582, 728633690>>
      [] gap = -2425 -> <<179718511, 94438291, 725843198>>
      [] gap = -1900 -> <<221918661, 115569224, 662512115>>
      [] gap = -1875 -> <<224036342, 116685826, 659277832>>
      [] gap = -1500 -> <<256634348, 134789708, 608575944>>
      [] gap = -1325 -> <<272198388, 144174380, 583627233>>
      [] gap = -950 -> <<305538871, 166543129, 527918000>>
      [] gap = -400 -> <<351593309, 205776941, 442629751>>
      [] gap = -375 -> <<353528289, 207765108, 438706603>>
      [] gap = -25 -> <<378405781, 237703367, 383890852>>
      [] gap = 0 -> <<380000000, 240000000, 380000000>>
      [] gap = 550 -> <<466128874, 194241156, 339629969>>
      [] gap = 1100 -> <<550527001, 157206779, 292266221>>
      [] gap = 1125 -> <<554255939, 155702419, 290041642>>
      [] gap = 1475 -> <<605058475, 136092014, 258849511>>
      [] gap = 1500 -> <<608575944, 134789708, 256634348>>
      [] gap = 2050 -> <<681511293, 109090453, 209398254>>
      [] gap = 2425 -> <<725843198, 94438291, 179718511>>
      [] gap = 2600 -> <<744938073, 88291066, 166770861>>
      [] gap = 2975 -> <<779393121, 80000000, 140606879>>
      [] gap = 3000 -> <<781098807, 80000000, 138901193>>
      [] gap = 3525 -> <<813118217, 80000000, 106881783>>
      [] gap = 3550 -> <<814470182, 80000000, 105529818>>
      [] gap = 4100 -> <<840638599, 80000000, 79361401>>
      [] gap = 4475 -> <<854957876, 80000000, 65042124>>
      [] gap = 5050 -> <<872336696, 80000000, 47663304>>
      [] gap = 5400 -> <<880662262, 80000000, 39337738>>
      [] gap = 5975 -> <<891402769, 80000000, 28597231>>
      [] gap = 6550 -> <<899279758, 80000000, 20720242>>

\* round(p, 4), as ten-thousandths
Round4(p) == (p + 50000) \div 100000

\* probs_1x2 returning round(p, 4) of each probability
probs_1x2_Rounded(elo_home, elo_away) ==
    LET p == ProbsAtGap((elo_home + 10 * HOME_ADV_ELO) - elo_away)
    IN <<Round4(p[1]) * 100000, Round4(p[2]) * 100000, Round4(p[3]) * 100000>>

probs_1x2(elo_home, elo_away) ==
    ProbsAtGap((elo_home + 10 * HOME_ADV_ELO) - elo_away)

\* pick_from_probs with > in place of >=
pick_from_probs_Strict(p_home, p_draw, p_away) ==
    IF p_home > p_draw /\ p_home > p_away THEN "HOME"
    ELSE IF p_away > p_home /\ p_away > p_draw THEN "AWAY"
    ELSE "DRAW"

\* pick_from_probs with the AWAY test ahead of the HOME test
pick_from_probs_AwayFirst(p_home, p_draw, p_away) ==
    IF p_away >= p_home /\ p_away >= p_draw THEN "AWAY"
    ELSE IF p_home >= p_draw /\ p_home >= p_away THEN "HOME"
    ELSE "DRAW"

pick_from_probs(p_home, p_draw, p_away) ==
    IF p_home >= p_draw /\ p_home >= p_away THEN "HOME"
    ELSE IF p_away >= p_home /\ p_away >= p_draw THEN "AWAY"
    ELSE "DRAW"

\* actual_outcome without the equal case
actual_outcome_NoDraw(home_goals, away_goals) ==
    IF home_goals >= away_goals THEN "HOME" ELSE "AWAY"

actual_outcome(home_goals, away_goals) ==
    IF home_goals > away_goals THEN "HOME"
    ELSE IF away_goals > home_goals THEN "AWAY"
    ELSE "DRAW"

\* find_team_rating: the exact key first, then the first key (in insertion
\* order) equal after norm; None when there is none.  "ratings" is the dict
\* as the sequence of its items
RECURSIVE FirstMatch(_, _, _)
FirstMatch(rt, i, low) ==
    IF i > Len(rt) THEN None
    ELSE IF norm(rt[i].team) = low THEN Some(rt[i].elo)
    ELSE FirstMatch(rt, i + 1, low)

find_team_rating(rt, team_name) ==
    IF rt = <<>> \/ team_name = "" THEN None
    ELSE IF \E i \in 1..Len(rt) : rt[i].team = team_name
         THEN Some(rt[CHOOSE i \in 1..Len(rt) : rt[i].team = team_name].elo)
    ELSE FirstMatch(rt, 1, norm(team_name))

\* "find_team_rating(...) or 1500.0", in tenths
RatingOrDefault(rt, team_name) ==
    IF find_team_rating(rt, team_name) = None
       \/ find_team_rating(rt, team_name) = Some(0)
    THEN 15000
    ELSE Val(find_team_rating(rt, team_name))

(***************************************************************************)
(* SPORTSDB PROVIDER                                                       *)
(***************************************************************************)
\* what requests.get and the body can do in sportsdb_get
RespKinds == {"ok", "http_error", "non_json", "timeout"}

\* sportsdb_get: the parsed body on a 200 JSON response, None on a non-200
\* status or a non-JSON body; a timeout of requests.get is an exception the
\* function does not catch
sportsdb_get(kind, body) ==
    CASE kind = "ok" -> [raised |-> FALSE, data |-> body]
      [] kind = "http_error" -> [raised |-> FALSE, data |-> None]
      [] kind = "non_json" -> [raised |-> FALSE, data |-> None]
      [] kind = "timeout" -> [raised |-> TRUE, data |-> None]

\* the league tables the provider answers with: no rows, Team A ahead of
\* Team B over ten matches each, and the same with the teams exchanged
Tables ==
    { <<>>,
      << [strTeam |-> "Team A", intPlayed |-> Some("10"), intPoints |-> Some("20"),
          intGoalDifference |-> Some("10")],
         [strTeam |-> "Team B", intPlayed |-> Some("10"), intPoints |-> Some("10"),
          intGoalDifference |-> Some("0")] >>,
      << [strTeam |-> "Team A", intPlayed |-> Some("10"), intPoints |-> Some("10"),
          intGoalDifference |-> Some("0")],
         [strTeam |-> "Team B", intPlayed |-> Some("10"), intPoints |-> Some("20"),
          intGoalDifference |-> Some("10")] >> }

\* the rows sportsdb_fetch_table_ratings keeps: a team name and played > 0
RECURSIVE TableRows(_)
TableRows(table) ==
    IF table = <<>> THEN <<>>
    ELSE LET t == Head(table)
             row == [team |-> t.strTeam, played |-> safe_int(t.intPlayed),
                     points |-> safe_int(t.intPoints),
                     gd |-> safe_int(t.intGoalDifference)]
         IN IF row.team = "" \/ row.played <= 0 THEN TableRows(Tail(table))
            ELSE <<row>> \o TableRows(Tail(table))

RECURSIVE ProdPlayed(_)
ProdPlayed(rows) ==
    IF rows = <<>> THEN 1 ELSE Head(rows).played * ProdPlayed(Tail(rows))

\* sum over the rows of x / played, times the product P of all played
RECURSIVE SumPerGame(_, _, _)
SumPerGame(rows, P, isPoints) ==
    IF rows = <<>> THEN 0
    ELSE (IF isPoints THEN Head(rows).points ELSE Head(rows).gd)
            * (P \div Head(rows).played)
         + SumPerGame(Tail(rows), P, isPoints)

\* ratings[team] = elo: a dict assignment (a repeated key keeps its place)
DictSet(rt, team, elo) ==
    IF \E i \in 1..Len(rt) : rt[i].team = team
    THEN [i \in 1..Len(rt) |->
             IF rt[i].team = team THEN [team |-> team, elo |-> elo] ELSE rt[i]]
    ELSE Append(rt, [team |-> team, elo |-> elo])

\* EloOf without the max(1200, min(1800, elo))
EloOf_Unclamped(row, rows) ==
    LET n == Len(rows)
        P == ProdPlayed(rows)
        den == n * P
        num == 1500 * den
               + (row.points * (P \div row.played) * n - SumPerGame(rows, P, TRUE)) * 420
               + (row.gd * (P \div row.played) * n - SumPerGame(rows, P, FALSE)) * 65
    IN (10 * num) \div den

\* 1500 + (ppg - avg_ppg) * 420 + (gdpg - avg_gdpg) * 65 clamped to
\* [1200, 1800], computed exactly over the denominator n * P and given in
\* tenths of a rating point
EloOf(row, rows) ==
    LET n == Len(rows)
        P == ProdPlayed(rows)
        den == n * P
        num == 1500 * den
               + (row.points * (P \div row.played) * n - SumPerGame(rows, P, TRUE)) * 420
               + (row.gd * (P \div row.played) * n - SumPerGame(rows, P, FALSE)) * 65
        clamped == Max2(1200 * den, Min2(1800 * den, num))
    IN (10 * clamped) \div den

RECURSIVE RatingsOf(_, _, _)
RatingsOf(rows, i, acc) ==
    IF i > Len(rows) THEN acc
    ELSE RatingsOf(rows, i + 1, DictSet(acc, rows[i].team, EloOf(rows[i], rows)))

\* sportsdb_fetch_table_ratings on the answer of sportsdb_get
sportsdb_fetch_table_ratings(data) ==
    LET table == IF data = None THEN <<>> ELSE Val(data)
    IN IF table = <<>> THEN <<>>
       ELSE IF TableRows(table) = <<>> THEN <<>>
       ELSE RatingsOf(TableRows(table), 1, <<>>)

(***************************************************************************)
(* STATUS / BUCKETING                                                      *)
(***************************************************************************)
finished_markers == {"match finished", "ft", "finished", "aet", "pen"}
live_markers == {"in play", "live", "1h", "2h", "ht", "1st half", "2nd half"}

\* is_finished: a finished marker, or both score fields "is not None"
is_finished(e) ==
    \/ norm(OrEmpty(e.strStatus)) \in finished_markers
    \/ (e.intHomeScore # None /\ e.intAwayScore # None)

\* is_live_now: a live marker, or a kickoff within the grace window before
\* now of an event that is not finished
is_live_now(e, now) ==
    IF norm(OrEmpty(e.strStatus)) \in live_markers THEN TRUE
    ELSE IF parse_event_dt_utc(e.dateEvent, e.strTime) = None THEN FALSE
    ELSE LET dt_utc == Val(parse_event_dt_utc(e.dateEvent, e.strTime))
             grace_start == now - LIVE_GRACE_MINUTES
         IN grace_start <= dt_utc /\ dt_utc <= now /\ ~is_finished(e)

(***************************************************************************)
(* CORE COLLECTOR: the body of "for ev in events"                          *)
(***************************************************************************)
\* LeagueMismatch with == in place of !=
LeagueMismatch_Inverted(e, league_id) ==
    safe_int(e.idLeague) # 0 /\ safe_int(e.idLeague) = league_id

\* the safety filter: a league id on the event that is not the league's
LeagueMismatch(e, league_id) ==
    safe_int(e.idLeague) # 0 /\ safe_int(e.idLeague) # league_id

\* ev_id = str(ev.get("idEvent") or "")
EvId(e) == OrEmpty(e.idEvent)

\* AlreadySeen against a set that never holds the id
AlreadySeen_Never(e, seen) == FALSE

AlreadySeen(e, seen) == EvId(e) # "" /\ EvId(e) \in seen

\* hg, ag: None for None and "", else safe_int
ScoreOf(raw) ==
    IF raw = None \/ raw = Some("") THEN None ELSE Some(safe_int(raw))

InResultsWindow(dt_utc, rs, re) == rs <= dt_utc /\ dt_utc <= re

\* InUpcomingWindow with both comparisons strict
InUpcomingWindow_Exclusive(dt_utc, us, ue) == us < dt_utc /\ dt_utc < ue

InUpcomingWindow(dt_utc, us, ue) == us <= dt_utc /\ dt_utc <= ue

\* "is_finished(ev) and hg is not None and ag is not None"
ResultCandidate(e) ==
    is_finished(e) /\ ScoreOf(e.intHomeScore) # None /\ ScoreOf(e.intAwayScore) # None

\* BranchOf with the live check ahead of the result check
BranchOf_LiveFirst(e, now, us, ue, rs, re) ==
    LET dt_utc == Val(parse_event_dt_utc(e.dateEvent, e.strTime))
    IN IF is_live_now(e, now) THEN "LIVE"
       ELSE IF ResultCandidate(e)
       THEN (IF InResultsWindow(dt_utc, rs, re) THEN "RESULT" ELSE "DROP")
       ELSE IF InUpcomingWindow(dt_utc, us, ue) THEN "UPCOMING"
       ELSE "DROP"

\* BranchOf with the "continue" of the result block under the window test,
\* so that a finished event outside the results window goes on to the live
\* and upcoming checks
BranchOf_FallsThrough(e, now, us, ue, rs, re) ==
    LET dt_utc == Val(parse_event_dt_utc(e.dateEvent, e.strTime))
    IN IF ResultCandidate(e) /\ InResultsWindow(dt_utc, rs, re) THEN "RESULT"
       ELSE IF is_live_now(e, now) THEN "LIVE"
       ELSE IF InUpcomingWindow(dt_utc, us, ue) THEN "UPCOMING"
       ELSE "DROP"

\* the branch of the loop body an event with a kickoff takes
BranchOf(e, now, us, ue, rs, re) ==
    LET dt_utc == Val(parse_event_dt_utc(e.dateEvent, e.strTime))
    IN IF ResultCandidate(e)
       THEN (IF InResultsWindow(dt_utc, rs, re) THEN "RESULT" ELSE "DROP")
       ELSE IF is_live_now(e, now) THEN "LIVE"
       ELSE IF InUpcomingWindow(dt_utc, us, ue) THEN "UPCOMING"
       ELSE "DROP"

base_row(e, league_name, rt) ==
    LET dt_utc == Val(parse_event_dt_utc(e.dateEvent, e.strTime))
        home == OrEmpty(e.strHomeTeam)
        away == OrEmpty(e.strAwayTeam)
        p == probs_1x2(RatingOrDefault(rt, home), RatingOrDefault(rt, away))
    IN [league |-> league_name,
        kickoff_london |-> LondonStr(dt_utc),
        home |-> home,
        away |-> away,
        p_home |-> Round4(p[1]),
        p_draw |-> Round4(p[2]),
        p_away |-> Round4(p[3]),
        pick |-> pick_from_probs(p[1], p[2], p[3]),
        source |-> "SportsDB",
        idEvent |-> EvId(e),
        status |-> OrEmpty(e.strStatus)]

\* base_row with the keys r[...] = ... adds
WithKeys(row, extra) ==
    [k \in (DOMAIN row) \cup (DOMAIN extra) |->
        IF k \in DOMAIN extra THEN extra[k] ELSE row[k]]

result_row(e, league_name, rt) ==
    LET hg == Val(ScoreOf(e.intHomeScore))
        ag == Val(ScoreOf(e.intAwayScore))
        row == base_row(e, league_name, rt)
        actual == actual_outcome(hg, ag)
    IN WithKeys(row, [type |-> "RESULT", score |-> <<hg, ag>>, actual |-> actual,
                      hit |-> IF row.pick = actual THEN "YES" ELSE "NO"])

live_row(e, league_name, rt) ==
    LET hg == ScoreOf(e.intHomeScore)
        ag == ScoreOf(e.intAwayScore)
    IN WithKeys(base_row(e, league_name, rt),
                [type |-> "LIVE",
                 score |-> IF hg = None \/ ag = None THEN <<>> ELSE <<Val(hg), Val(ag)>>])

\* upcoming_row with the type of the branch above it
upcoming_row_TypedLive(e, league_name, rt) ==
    WithKeys(base_row(e, league_name, rt), [type |-> "LIVE"])

upcoming_row(e, league_name, rt) ==
    WithKeys(base_row(e, league_name, rt), [type |-> "UPCOMING"])

\* TallyAfter with correct_eval += 1 outside the "if hit"
TallyAfter_CountsMisses(correct, total, hit) ==
    [correct |-> correct + 1, total |-> total + 1]

\* total_eval += 1, and correct_eval += 1 on a hit
TallyAfter(correct, total, hit) ==
    [correct |-> IF hit THEN correct + 1 ELSE correct, total |-> total + 1]

\* what one iteration does to the event: stopped by the league filter, by
\* the seen ids or by the kickoff that does not parse, else its branch
StepOf(e, league_id, seen, now, us, ue, rs, re) ==
    IF LeagueMismatch(e, league_id) THEN "FOREIGN"
    ELSE IF AlreadySeen(e, seen) THEN "SEEN"
    ELSE IF parse_event_dt_utc(e.dateEvent, e.strTime) = None THEN "NO_KICKOFF"
    ELSE BranchOf(e, now, us, ue, rs, re)

\* SeenAfter without the seen_event_ids.add
SeenAfter_NeverAdds(e, league_id, seen) == seen

\* seen_event_ids after the iteration
SeenAfter(e, league_id, seen) ==
    IF LeagueMismatch(e, league_id) \/ AlreadySeen(e, seen) \/ EvId(e) = "" THEN seen
    ELSE seen \cup {EvId(e)}

(***************************************************************************)
(* Sorting: list.sort(key = ...) is stable                                 *)
(***************************************************************************)
kickoff_key(r) == r.kickoff_london

conf_key(r) == Max2(r.p_home, Max2(r.p_draw, r.p_away))

\* the order of the "%Y-%m-%d %H:%M" strings
KickoffLess(a, b) == a[1] < b[1] \/ (a[1] = b[1] /\ a[2] < b[2])

ResultBefore(a, b) == KickoffLess(kickoff_key(a), kickoff_key(b))

\* LiveBefore on conf_key instead of -conf_key
LiveBefore_Ascending(a, b) ==
    \/ conf_key(a) < conf_key(b)
    \/ (conf_key(a) = conf_key(b) /\ KickoffLess(kickoff_key(a), kickoff_key(b)))

LiveBefore(a, b) ==
    \/ -conf_key(a) < -conf_key(b)
    \/ (conf_key(a) = conf_key(b) /\ KickoffLess(kickoff_key(a), kickoff_key(b)))

\* r put after the last element that is not after it
RECURSIVE InsertStable(_, _, _)
InsertStable(sorted, r, live) ==
    IF sorted = <<>> THEN <<r>>
    ELSE LET l == sorted[Len(sorted)]
             before == IF live THEN LiveBefore(r, l) ELSE ResultBefore(r, l)
         IN IF before
            THEN Append(InsertStable(SubSeq(sorted, 1, Len(sorted) - 1), r, live), l)
            ELSE Append(sorted, r)

RECURSIVE SortRows(_, _)
SortRows(rows, live) ==
    IF rows = <<>> THEN <<>>
    ELSE InsertStable(SortRows(SubSeq(rows, 1, Len(rows) - 1), live),
                      rows[Len(rows)], live)

(***************************************************************************)
(* Inputs: what the provider returns                                       *)
(***************************************************************************)
Event(idLeague, idEvent, dateEvent, strTime, strStatus, hs, as) ==
    [idLeague |-> idLeague, idEvent |-> idEvent, dateEvent |-> dateEvent,
     strTime |-> strTime, strStatus |-> strStatus, intHomeScore |-> hs,
     intAwayScore |-> as, strHomeTeam |-> Some("Team A"),
     strAwayTeam |-> Some("Team B")]

\* the scores of an event: absent, empty strings, played, half known
ScorePairs ==
    { <<None, None>>, <<Some(""), Some("")>>, <<Some("2"), Some("1")>>,
      <<Some("2"), None>> }

Statuses == { Some(""), Some("FT"), Some("1st half") }

\* the events of the provider: Saturday 15:00 with every status and score
\* pair and no ids; a finished draw; Friday 20:00; no date; with an event
\* id, with and without a league id; with a league id only; Friday 20:00
\* still flagged as in its first half
Events ==
    { Event(None, None, Some("2024-01-06"), Some("15:00:00"), st, sc[1], sc[2]) :
        st \in Statuses, sc \in ScorePairs }
    \cup { Event(None, None, Some("2024-01-06"), Some("15:00:00"), Some("FT"),
                 Some("1"), Some("1")) }
    \cup { Event(None, None, Some("2024-01-05"), Some("20:00"), Some(""), sc[1], sc[2]) :
             sc \in { <<None, None>>, <<Some("2"), Some("1")>> } }
    \cup { Event(None, id, None, None, Some(""), None, None) :
             id \in { None, Some("e1") } }
    \cup { Event(lid, Some("e1"), Some("2024-01-06"), Some("15:00:00"), Some(""),
                 sc[1], sc[2]) :
             lid \in { None, Some("4329") },
             sc \in { <<None, None>>, <<Some("2"), Some("1")>> } }
    \cup { Event(None, Some("e1"), Some("2024-01-05"), Some("20:00"), Some(""),
                 None, None),
           Event(Some("4329"), None, Some("2024-01-06"), Some("15:00:00"), Some(""),
                 None, None),
           Event(None, None, Some("2024-01-05"), Some("20:00"), Some("1st half"),
                 None, None) }

\* the event before the first iteration
NoEvent == Event(None, None, None, None, None, None, None)

\* no pure function is examined on its own
NoCall == [name |-> "", args |-> <<>>, ret |-> None]

\* send_telegram_chunks is not examined on its own
NoChunks ==
    /\ spc = "idle"
    /\ text = <<>>
    /\ chunks = <<>>
    /\ posted = <<>>

League(name, id, canon) == [name |-> name, id |-> id, canon |-> canon]

SPORTSDB_LEAGUE_ID_FALLBACK(league_name) ==
    CASE league_name = "Premier League" -> 4328
      [] league_name = "EFL Championship" -> 4329
      [] OTHER -> 0

FallbackCanon(league_name) ==
    CASE league_name = "Premier League" -> Some("English Premier League")
      [] league_name = "EFL Championship" -> Some("English League Championship")
      [] OTHER -> None

\* Saturday 15:00 UTC, the kickoff of most events of the model
Kickoff1 == Val(parse_event_dt_utc(Some("2024-01-06"), Some("15:00:00")))

\* end of the Sunday of the week (23:59:59), in whole minutes
EndOfSunday == 6 * MinutesPerDay + (MinutesPerDay - 1)

\* reference instants of a direct call: before the kickoff, at it, 40
\* minutes after it, at the end of the grace window and one minute later
NowSamples ==
    { Kickoff1 - 10, Kickoff1, Kickoff1 + 40, Kickoff1 + LIVE_GRACE_MINUTES,
      Kickoff1 + LIVE_GRACE_MINUTES + 1 }

\* the windows main computes at "now"
MainWindows(now) ==
    [us |-> now, ue |-> EndOfSunday,
     rs |-> now - RESULTS_LOOKBACK_HOURS * MinutesPerHour, re |-> now]

\* windows that contain no event, and two windows that both contain every
\* event
OtherWindows ==
    { [us |-> 0, ue |-> 0, rs |-> 0, re |-> 0],
      [us |-> 0, ue |-> EndOfSunday, rs |-> 0, re |-> EndOfSunday] }

\* windows that begin and end at the Saturday kickoff
PointWindows ==
    [us |-> Kickoff1, ue |-> Kickoff1, rs |-> Kickoff1, re |-> Kickoff1]

BothLeagues ==
    << League("Premier League", 4328, Some("English Premier League")),
       League("EFL Championship", 4329, Some("English League Championship")) >>

\* the first league without a resolvable id
OneLeague ==
    << League("Premier League", 0, None),
       League("EFL Championship", 4329, Some("English League Championship")) >>

\* the arguments of a direct call: both leagues over one date, with main's
\* windows at every reference instant, with the other windows 40 minutes
\* after the kickoff and with the point windows once the grace window is
\* over; one league over two dates
CallSamples ==
    { [now |-> n, win |-> MainWindows(n), leagues |-> BothLeagues, dates |-> <<5>>] :
        n \in NowSamples }
    \cup { [now |-> Kickoff1 + 40, win |-> w, leagues |-> BothLeagues, dates |-> <<5>>] :
             w \in OtherWindows }
    \cup { [now |-> Kickoff1 + LIVE_GRACE_MINUTES + 1, win |-> PointWindows,
            leagues |-> BothLeagues, dates |-> <<5>>] }
    \cup { [now |-> Kickoff1 + 40, win |-> MainWindows(Kickoff1 + 40),
            leagues |-> OneLeague, dates |-> <<4, 5>>] }

(***************************************************************************)
(* State                                                                   *)
(***************************************************************************)
CollectorStart ==
    /\ cpc = "league"
    /\ lg = 0
    /\ di = 0
    /\ ratings = <<>>
    /\ seen_event_ids = {}
    /\ ev = NoEvent
    /\ upcoming_rows = <<>>
    /\ live_rows = <<>>
    /\ result_rows = <<>>
    /\ eval_rows = <<>>
    /\ all_csv_rows = <<>>
    /\ correct_eval = 0
    /\ total_eval = 0

\* collect_matches_for_range called directly with inputs of the samples
Init ==
    /\ mpc = "none"
    /\ wd = 0
    /\ tod = 0
    /\ sent = <<>>
    /\ \E c \in CallSamples :
          /\ now_utc = c.now
          /\ upcoming_start_utc = c.win.us
          /\ upcoming_end_utc = c.win.ue
          /\ results_start_utc = c.win.rs
          /\ results_end_utc = c.win.re
          /\ leagues_meta = c.leagues
          /\ dates = c.dates
    /\ calls = 1
    /\ budget = MaxEvents
    /\ CollectorStart
    /\ fn = NoCall
    /\ NoChunks

\* where the loops stand once the events of a day are exhausted
AfterDay(d) == IF d >= Len(dates) THEN "league" ELSE "day"

\* "for lg in leagues_meta": a league without id is skipped; else the table
\* is fetched, the ratings are built and the scan of the dates starts
LeagueStep ==
    /\ cpc = "league"
    /\ lg < Len(leagues_meta)
    /\ lg' = lg + 1
    /\ IF leagues_meta[lg + 1].id = 0
       THEN UNCHANGED <<cpc, di, ratings, seen_event_ids>>
       ELSE \E kind \in RespKinds, table \in Tables :
              LET got == sportsdb_get(kind, Some(table))
              IN /\ kind # "ok" => table = <<>>
                 /\ IF got.raised
                    THEN /\ cpc' = "raised"
                         /\ UNCHANGED <<di, ratings, seen_event_ids>>
                    ELSE /\ ratings' = sportsdb_fetch_table_ratings(got.data)
                         /\ seen_event_ids' = {}
                         /\ di' = 0
                         /\ cpc' = AfterDay(0)
    /\ UNCHANGED <<fn, chunkVars, mainVars, params, calls, budget, ev, buckets>>

\* "for day in dates": sportsdb_fetch_events_day; more says whether the
\* list it returns has an event
DayStep ==
    /\ cpc = "day"
    /\ di < Len(dates)
    /\ di' = di + 1
    /\ \E kind \in RespKinds, more \in BOOLEAN :
          LET got == sportsdb_get(kind, IF more THEN Some("events") ELSE None)
          IN /\ more => (kind = "ok" /\ budget > 0)
             /\ cpc' = IF got.raised THEN "raised"
                       ELSE IF got.data = None THEN AfterDay(di + 1)
                       ELSE "events"
    /\ UNCHANGED <<fn, chunkVars, mainVars, params, calls, budget, lg, ratings, seen_event_ids,
                   ev, buckets>>

\* one iteration of "for ev in events" on the event e; last says whether e
\* ends the list of the day
EventStep ==
    /\ cpc = "events"
    /\ budget > 0
    /\ \E e \in Events, last \in BOOLEAN :
          LET league == leagues_meta[lg]
              step == StepOf(e, league.id, seen_event_ids, now_utc,
                             upcoming_start_utc, upcoming_end_utc,
                             results_start_utc, results_end_utc)
          IN /\ budget = 1 => last
             /\ ev' = e
             /\ budget' = budget - 1
             /\ seen_event_ids' = SeenAfter(e, league.id, seen_event_ids)
             /\ cpc' = IF last THEN AfterDay(di) ELSE "events"
             /\ CASE step = "RESULT" ->
                       LET r == result_row(e, league.name, ratings)
                           t == TallyAfter(correct_eval, total_eval, r.hit = "YES")
                       IN /\ total_eval' = t.total
                          /\ correct_eval' = t.correct
                          /\ result_rows' = Append(result_rows, r)
                          /\ eval_rows' = Append(eval_rows, r)
                          /\ all_csv_rows' = Append(all_csv_rows, r)
                          /\ UNCHANGED <<live_rows, upcoming_rows>>
                  [] step = "LIVE" ->
                       LET r == live_row(e, league.name, ratings)
                       IN /\ live_rows' = Append(live_rows, r)
                          /\ all_csv_rows' = Append(all_csv_rows, r)
                          /\ UNCHANGED <<result_rows, eval_rows, upcoming_rows,
                                         correct_eval, total_eval>>
                  [] step = "UPCOMING" ->
                       LET r == upcoming_row(e, league.name, ratings)
                       IN /\ upcoming_rows' = Append(upcoming_rows, r)
                          /\ all_csv_rows' = Append(all_csv_rows, r)
                          /\ UNCHANGED <<result_rows, eval_rows, live_rows,
                                         correct_eval, total_eval>>
                  [] OTHER -> UNCHANGED buckets
    /\ UNCHANGED <<fn, chunkVars, mainVars, params, calls, lg, di, ratings>>

\* the sorts and the return of collect_matches_for_range, where the locals
\* ratings and seen_event_ids end
Return ==
    /\ cpc = "league"
    /\ lg = Len(leagues_meta)
    /\ cpc' = "returned"
    /\ ratings' = <<>>
    /\ seen_event_ids' = {}
    /\ result_rows' = SortRows(result_rows, FALSE)
    /\ eval_rows' = SortRows(eval_rows, FALSE)
    /\ live_rows' = SortRows(live_rows, TRUE)
    /\ upcoming_rows' = SortRows(upcoming_rows, FALSE)
    /\ UNCHANGED <<fn, chunkVars, mainVars, params, calls, budget, lg, di, ev, all_csv_rows,
                   correct_eval, total_eval>>

Next == LeagueStep \/ DayStep \/ EventStep \/ Return

Spec == Init /\ [][Next]_vars

(***************************************************************************)
(* MAIN                                                                    *)
(***************************************************************************)
\* minute of the day of the runs of the model
TodSamples == { 15 * MinutesPerHour + 40 }

InitMain ==
    /\ mpc = "start"
    /\ wd \in 0..6
    /\ tod \in TodSamples
    /\ sent = <<>>
    /\ now_utc = 0
    /\ upcoming_start_utc = 0
    /\ upcoming_end_utc = 0
    /\ results_start_utc = 0
    /\ results_end_utc = 0
    /\ leagues_meta = <<>>
    /\ dates = <<>>
    /\ calls = 0
    /\ budget = 0
    /\ cpc = "idle"
    /\ lg = 0
    /\ di = 0
    /\ ratings = <<>>
    /\ seen_event_ids = {}
    /\ ev = NoEvent
    /\ upcoming_rows = <<>>
    /\ live_rows = <<>>
    /\ result_rows = <<>>
    /\ eval_rows = <<>>
    /\ all_csv_rows = <<>>
    /\ correct_eval = 0
    /\ total_eval = 0
    /\ fn = NoCall
    /\ NoChunks

\* now_london as an instant of the week, and now_utc
NowLondon(weekday, minute) == weekday * MinutesPerDay + minute

\* DateList with "while d < end_sun_date"
RECURSIVE DateList_ExclusiveEnd(_, _)
DateList_ExclusiveEnd(d, last) ==
    IF d >= last THEN <<>> ELSE <<d>> \o DateList_ExclusiveEnd(d + 1, last)

\* the strings of the dates from d to last, one day apart
RECURSIVE DateList(_, _)
DateList(d, last) == IF d > last THEN <<>> ELSE <<d>> \o DateList(d + 1, last)

\* sportsdb_resolve_league_meta: the id and name of the first league of the
\* answer whose name is an alias and whose id is not 0; the fallback pair
\* when there is none or the search raised
Aliases(league_name) ==
    CASE league_name = "Premier League" -> {"premier league", "english premier league"}
      [] league_name = "EFL Championship" ->
           {"efl championship", "english league championship", "championship"}
      [] OTHER -> {league_name}

RECURSIVE FirstLeague(_, _, _)
FirstLeague(countries, i, league_name) ==
    IF i > Len(countries) THEN None
    ELSE IF countries[i].strLeague \in Aliases(league_name)
            /\ safe_int(countries[i].idLeague) # 0
         THEN Some(countries[i])
         ELSE FirstLeague(countries, i + 1, league_name)

sportsdb_resolve_league_meta(league_name, kind, countries) ==
    LET got == sportsdb_get(kind, Some(countries))
        found == IF got.raised \/ got.data = None THEN None
                 ELSE FirstLeague(Val(got.data), 1, league_name)
    IN IF found = None
       THEN League(league_name, SPORTSDB_LEAGUE_ID_FALLBACK(league_name),
                   FallbackCanon(league_name))
       ELSE League(league_name, safe_int(Val(found).idLeague),
                   Some(Val(found).strLeague))

\* the answer of search_all_leagues.php, names already lower-cased
Countries ==
    << [strLeague |-> "english premier league", idLeague |-> Some("4328")],
       [strLeague |-> "english league championship", idLeague |-> Some("4329")] >>

\* outside Thu-Sun: the heartbeat message, and return
MainSkip ==
    /\ mpc = "start"
    /\ wd \notin RUN_DAYS
    /\ sent' = Append(sent, "heartbeat")
    /\ mpc' = "done"
    /\ UNCHANGED <<fn, chunkVars, wd, tod, params, cpc, calls, budget, lg, di, ratings,
                   seen_event_ids, ev, buckets>>

\* Thu-Sun: the dates, the leagues and the windows, and the primary call of
\* collect_matches_for_range
MainPrimary ==
    /\ mpc = "start"
    /\ wd \in RUN_DAYS
    /\ LET now_london == NowLondon(wd, tod)
           today == now_london \div MinutesPerDay
           start_thu_date == today - (wd - 3)
           end_sun_date == today + (6 - wd)
       IN /\ now_utc' = now_london - LondonOffset(now_london)
          /\ dates' = DateList(start_thu_date, end_sun_date)
          /\ results_start_utc' = now_utc' - RESULTS_LOOKBACK_HOURS * MinutesPerHour
          /\ results_end_utc' = now_utc'
          /\ upcoming_start_utc' = now_utc'
          /\ upcoming_end_utc' =
               (end_sun_date * MinutesPerDay + (MinutesPerDay - 1))
               - LondonOffset(now_london)
    /\ \E k1 \in RespKinds, k2 \in RespKinds :
          leagues_meta' =
             << sportsdb_resolve_league_meta(LEAGUE_NAMES[1], k1, Countries),
                sportsdb_resolve_league_meta(LEAGUE_NAMES[2], k2, Countries) >>
    /\ mpc' = "primary"
    /\ calls' = calls + 1
    /\ budget' = MaxMainEvents
    /\ cpc' = "league"
    /\ lg' = 0
    /\ di' = 0
    /\ ratings' = <<>>
    /\ seen_event_ids' = {}
    /\ ev' = NoEvent
    /\ upcoming_rows' = <<>>
    /\ live_rows' = <<>>
    /\ result_rows' = <<>>
    /\ eval_rows' = <<>>
    /\ all_csv_rows' = <<>>
    /\ correct_eval' = 0
    /\ total_eval' = 0
    /\ UNCHANGED <<fn, chunkVars, wd, tod, sent>>

\* line 699 after the primary pass: the name FALLBACK_IF_EMPTY is bound
\* nowhere in the module, so evaluating the condition raises NameError
\* whatever the three lists hold; main has no handler and the run ends with
\* a traceback, before the digest is built or sent
MainFallbackCheck ==
    /\ mpc = "primary"
    /\ cpc = "returned"
    /\ mpc' = "failed"
    /\ UNCHANGED <<fn, chunkVars, wd, tod, sent, params, cpc, calls, budget, lg, di,
                   ratings, seen_event_ids, ev, buckets>>

\* an exception of requests.get inside the collector reaches main, which has
\* no handler either
MainCollectorRaised ==
    /\ mpc = "primary"
    /\ cpc = "raised"
    /\ mpc' = "failed"
    /\ UNCHANGED <<fn, chunkVars, wd, tod, sent, params, cpc, calls, budget, lg, di,
                   ratings, seen_event_ids, ev, buckets>>

NextMain ==
    \/ MainSkip
    \/ MainPrimary
    \/ LeagueStep
    \/ DayStep
    \/ EventStep
    \/ Return
    \/ MainFallbackCheck
    \/ MainCollectorRaised

SpecMain == InitMain /\ [][NextMain]_vars

(***************************************************************************)
(* PURE FUNCTIONS examined on their own                                    *)
(***************************************************************************)
runVars == <<mainVars, params, cpc, calls, budget, lg, di, ratings,
             seen_event_ids, ev, buckets>>

\* neither main nor the collector runs
NoRun ==
    /\ mpc = "pure"
    /\ wd = 0
    /\ tod = 0
    /\ sent = <<>>
    /\ now_utc = 0
    /\ upcoming_start_utc = 0
    /\ upcoming_end_utc = 0
    /\ results_start_utc = 0
    /\ results_end_utc = 0
    /\ leagues_meta = <<>>
    /\ dates = <<>>
    /\ calls = 0
    /\ budget = 0
    /\ cpc = "idle"
    /\ lg = 0
    /\ di = 0
    /\ ratings = <<>>
    /\ seen_event_ids = {}
    /\ ev = NoEvent
    /\ upcoming_rows = <<>>
    /\ live_rows = <<>>
    /\ result_rows = <<>>
    /\ eval_rows = <<>>
    /\ all_csv_rows = <<>>
    /\ correct_eval = 0
    /\ total_eval = 0

\* the values p_home, p_draw and p_away are drawn from: pick_from_probs
\* only compares them, and three values of a grid come in every order,
\* ties included
ProbGrid == 0..MaxProb

\* pick_from_probs about to be called on three values of the grid
InitPick ==
    /\ NoRun
    /\ NoChunks
    /\ \E p_home \in ProbGrid, p_draw \in ProbGrid, p_away \in ProbGrid :
          fn = [name |-> "pick_from_probs", args |-> <<p_home, p_draw, p_away>>,
                ret |-> None]

\* the call of pick_from_probs
PickStep ==
    /\ fn.name = "pick_from_probs"
    /\ fn.ret = None
    /\ fn' = [fn EXCEPT !.ret = Some(pick_from_probs(fn.args[1], fn.args[2],
                                                     fn.args[3]))]
    /\ UNCHANGED <<runVars, chunkVars>>

NextPick == PickStep

SpecPick == InitPick /\ [][NextPick]_vars

\* the rows of lookuptable.php: a team name or none, and played, points
\* and goal difference of a leader, a mid-table team, a team that has not
\* played, a team with one match won and a team without a point
TableStats ==
    { <<Some("10"), Some("20"), Some("10")>>, <<Some("10"), Some("10"), Some("0")>>,
      <<Some("0"), Some("0"), Some("0")>>, <<Some("1"), Some("2"), Some("2")>>,
      <<Some("10"), Some("0"), Some("0")>> }

TableEntries ==
    { [strTeam |-> team, intPlayed |-> st[1], intPoints |-> st[2],
       intGoalDifference |-> st[3]] :
        team \in {"Team A", "Team B", ""}, st \in TableStats }

\* the tables of at most MaxRows rows
TablesUpTo(n) == UNION { [1..k -> TableEntries] : k \in 0..n }

\* sportsdb_fetch_table_ratings about to be called where sportsdb_get
\* answers None or a table
InitRatings ==
    /\ NoRun
    /\ NoChunks
    /\ \E data \in {None} \cup { Some(t) : t \in TablesUpTo(MaxRows) } :
          fn = [name |-> "sportsdb_fetch_table_ratings", args |-> <<data>>,
                ret |-> None]

\* the call of sportsdb_fetch_table_ratings
RatingsStep ==
    /\ fn.name = "sportsdb_fetch_table_ratings"
    /\ fn.ret = None
    /\ fn' = [fn EXCEPT !.ret = Some(sportsdb_fetch_table_ratings(fn.args[1]))]
    /\ UNCHANGED <<runVars, chunkVars>>

NextRatings == RatingsStep

SpecRatings == InitRatings /\ [][NextRatings]_vars

\* ratings the collector can hand to probs_1x2, in tenths: both ends of the
\* clamp, values between them, the 1500 default, 1555 (the default plus
\* HOME_ADV_ELO) and the two ratings of the scenario table
RatingSamples == {12000, 12575, 13500, 15000, 15550, 16500, 17425, 18000}

\* probs_1x2 about to be called on two of the ratings
InitProbs ==
    /\ NoRun
    /\ NoChunks
    /\ \E elo_home \in RatingSamples, elo_away \in RatingSamples :
          fn = [name |-> "probs_1x2", args |-> <<elo_home, elo_away>>, ret |-> None]

\* the call of probs_1x2
ProbsStep ==
    /\ fn.name = "probs_1x2"
    /\ fn.ret = None
    /\ fn' = [fn EXCEPT !.ret = Some(probs_1x2(fn.args[1], fn.args[2]))]
    /\ UNCHANGED <<runVars, chunkVars>>

NextProbs == ProbsStep

SpecProbs == InitProbs /\ [][NextProbs]_vars

\* the ratings dict of a league: each of the two teams is absent or has
\* one of the ratings
RatingDicts ==
    { <<>> }
    \cup { <<[team |-> t, elo |-> x]>> : t \in {"Team A", "Team B"}, x \in RatingSamples }
    \cup { <<[team |-> "Team A", elo |-> x], [team |-> "Team B", elo |-> y]>> :
             x \in RatingSamples, y \in RatingSamples }

\* finished events in the results window: two draws, a home win, an away win
FinishedEvents ==
    { Event(None, None, Some("2024-01-06"), Some("15:00:00"), Some("FT"),
            Some(sc[1]), Some(sc[2])) :
        sc \in { <<"0", "0">>, <<"1", "1">>, <<"2", "1">>, <<"1", "2">> } }

\* the RESULT block about to run on a finished event and a ratings dict
InitPredict ==
    /\ NoRun
    /\ NoChunks
    /\ \E e \in FinishedEvents, rt \in RatingDicts :
          fn = [name |-> "result_row", args |-> <<e, rt>>, ret |-> None]

\* lines 563-567 and 589-605 on the event: the probabilities, the RESULT
\* record and the tally after it, from (0, 0)
PredictStep ==
    /\ fn.name = "result_row"
    /\ fn.ret = None
    /\ LET e == fn.args[1]
           rt == fn.args[2]
           r == result_row(e, LEAGUE_NAMES[1], rt)
       IN fn' = [fn EXCEPT !.ret =
                    Some([probs |-> probs_1x2(RatingOrDefault(rt, OrEmpty(e.strHomeTeam)),
                                              RatingOrDefault(rt, OrEmpty(e.strAwayTeam))),
                          row |-> r,
                          tally |-> TallyAfter(0, 0, r.hit = "YES")])]
    /\ UNCHANGED <<runVars, chunkVars>>

NextPredict == PredictStep

SpecPredict == InitPredict /\ [][NextPredict]_vars

\* ---------------------------------------------------------------------
\* send_telegram_chunks examined on its own.  A text is a sequence of
\* characters; the empty text and None are both the empty sequence, as
\* `text or ""` makes them.

Chars == {"a", " ", "\n"}

\* the characters str.strip and str.lstrip remove
Whitespace == {" ", "\n"}

RECURSIVE TextsUpTo(_)
TextsUpTo(n) ==
    IF n = 0 THEN {<<>>}
    ELSE LET shorter == TextsUpTo(n - 1)
         IN  shorter \cup {Append(t, c) : t \in {s \in shorter : Len(s) = n - 1}, c \in Chars}

\* a str.lstrip() that removes nothing
lstrip_Keep(t) == t

\* str.lstrip()
RECURSIVE lstrip(_)
lstrip(t) ==
    IF t = <<>> THEN <<>>
    ELSE IF Head(t) \in Whitespace THEN lstrip(Tail(t))
    ELSE t

\* str.rstrip(), the other half of str.strip()
RECURSIVE rstrip(_)
rstrip(t) ==
    IF t = <<>> THEN <<>>
    ELSE IF t[Len(t)] \in Whitespace THEN rstrip(SubSeq(t, 1, Len(t) - 1))
    ELSE t

\* str.strip()
strip(t) == rstrip(lstrip(t))

\* t.rfind("\n", 0, end): the largest 0-based index below end that holds a
\* newline, -1 when there is none
rfind_newline(t, end) ==
    LET at == {i \in 0..(end - 1) : i < Len(t) /\ t[i + 1] = "\n"}
    IN  IF at = {} THEN -1 ELSE CHOOSE i \in at : \A j \in at : j <= i

\* the cut of one iteration of the while loop
CutOf(t) ==
    LET cut == rfind_newline(t, TELEGRAM_MAX_LEN)
    IN  IF cut = -1 THEN TELEGRAM_MAX_LEN ELSE cut

\* the message send_telegram_message is given: the chunk followed by
\* "\n\n(Part i/n)"
PartMessage(chunk, i, n) == [chunk |-> chunk, part |-> i, of |-> n]

InitChunks ==
    /\ NoRun
    /\ \E t \in TextsUpTo(MaxTextLen) :
          fn = [name |-> "send_telegram_chunks", args |-> <<t>>, ret |-> None]
    /\ spc = "call"
    /\ text = <<>>
    /\ chunks = <<>>
    /\ posted = <<>>

\* text = (text or "").strip(); if not text: return; chunks = []
ChunksEnter ==
    /\ spc = "call"
    /\ text' = strip(fn.args[1])
    /\ spc' = IF text' = <<>> THEN "done" ELSE "loop"
    /\ UNCHANGED <<fn, runVars, chunks, posted>>

\* one iteration of the while loop
ChunksCut ==
    /\ spc = "loop"
    /\ Len(text) > TELEGRAM_MAX_LEN
    /\ LET cut == CutOf(text)
       IN  /\ chunks' = Append(chunks, SubSeq(text, 1, cut))
           /\ text' = lstrip(SubSeq(text, cut + 1, Len(text)))
    /\ UNCHANGED <<fn, runVars, spc, posted>>

\* the loop ends; chunks.append(text)
ChunksLast ==
    /\ spc = "loop"
    /\ Len(text) <= TELEGRAM_MAX_LEN
    /\ chunks' = Append(chunks, text)
    /\ spc' = "send"
    /\ UNCHANGED <<fn, runVars, text, posted>>

\* one iteration of the for loop; the function returns after the last
ChunksSend ==
    /\ spc = "send"
    /\ Len(posted) < Len(chunks)
    /\ LET i == Len(posted) + 1
       IN  posted' = Append(posted, PartMessage(chunks[i], i, Len(chunks)))
    /\ spc' = IF Len(posted') = Len(chunks) THEN "done" ELSE "send"
    /\ UNCHANGED <<fn, runVars, text, chunks>>

NextChunks ==
    \/ ChunksEnter
    \/ ChunksCut
    \/ ChunksLast
    \/ ChunksSend

\* the function is one sequential piece of code: a statement that can run
\* does run
SpecChunks == InitChunks /\ [][NextChunks]_vars /\ WF_vars(NextChunks)

(***************************************************************************)
(* Properties                                                              *)
(***************************************************************************)
\* a step that is one iteration of "for ev in events"; ev' is its event
Iterated == budget' = budget - 1

EvKickoff(e) == parse_event_dt_utc(e.dateEvent, e.strTime)

ScorePresent(raw) == raw # None /\ raw # Some("")

BothScoresPresent(e) == ScorePresent(e.intHomeScore) /\ ScorePresent(e.intAwayScore)

HasFinishedMarker(e) ==
    norm(OrEmpty(e.strStatus)) \in {"match finished", "ft", "finished", "aet", "pen"}

HasLiveMarker(e) ==
    norm(OrEmpty(e.strStatus))
        \in {"in play", "live", "1h", "2h", "ht", "1st half", "2nd half"}

\* e passes the league filter and the dedup of the current league and has a
\* kickoff, so the classification decides what becomes of it
ReachesClassifier(e) ==
    /\ safe_int(e.idLeague) \in {0, leagues_meta[lg].id}
    /\ OrEmpty(e.idEvent) = "" \/ OrEmpty(e.idEvent) \notin seen_event_ids
    /\ EvKickoff(e) # None

\* new is old with one record of the given type, made from e, at its end
AppendedOne(old, new, type, e) ==
    /\ Len(new) = Len(old) + 1
    /\ SubSeq(new, 1, Len(old)) = old
    /\ new[Len(new)].type = type
    /\ new[Len(new)].idEvent = OrEmpty(e.idEvent)
    /\ new[Len(new)].status = OrEmpty(e.strStatus)
    /\ new[Len(new)].kickoff_london = LondonStr(Val(EvKickoff(e)))

InGrace(t) == now_utc - LIVE_GRACE_MINUTES <= t /\ t <= now_utc

\* C1: an event that reaches the classification, is finished (finished
\* marker, or both scores), has both scores present and kicks off within
\* [results_start_utc, results_end_utc] is appended to result_rows as a
\* RESULT record and to neither live_rows nor upcoming_rows, whatever its
\* status and the other windows are
C1_FinishedInWindowIsResult ==
    [][ ( /\ Iterated
          /\ ReachesClassifier(ev')
          /\ HasFinishedMarker(ev') \/ BothScoresPresent(ev')
          /\ BothScoresPresent(ev')
          /\ results_start_utc <= Val(EvKickoff(ev'))
          /\ Val(EvKickoff(ev')) <= results_end_utc )
        => ( /\ AppendedOne(result_rows, result_rows', "RESULT", ev')
             /\ UNCHANGED <<live_rows, upcoming_rows>> ) ]_vars

\* C1 witness: the last iteration put a "1st half" event with both scores,
\* whose kickoff is in the results window, the grace window and the
\* upcoming window at once, into result_rows and nowhere else
C1_Witness ==
    /\ cpc \in {"events", "day", "league"}
    /\ budget = MaxEvents - 1
    /\ ev.strStatus = Some("1st half")
    /\ BothScoresPresent(ev)
    /\ EvKickoff(ev) # None
    /\ InGrace(Val(EvKickoff(ev)))
    /\ upcoming_start_utc <= Val(EvKickoff(ev))
    /\ Val(EvKickoff(ev)) <= upcoming_end_utc
    /\ results_start_utc <= Val(EvKickoff(ev))
    /\ Val(EvKickoff(ev)) <= results_end_utc
    /\ Len(result_rows) = 1
    /\ result_rows[1].type = "RESULT"
    /\ result_rows[1].status = "1st half"
    /\ live_rows = <<>>
    /\ upcoming_rows = <<>>

\* C2 (as claimed): an event with a finished marker that lacks one or both
\* scores changes none of result_rows, live_rows, upcoming_rows
C2_FinishedWithoutScoresDropped ==
    [][ ( /\ Iterated
          /\ HasFinishedMarker(ev')
          /\ ~BothScoresPresent(ev') )
        => UNCHANGED <<result_rows, live_rows, upcoming_rows>> ]_vars

\* C3 (as claimed): an event that reaches the classification with a live
\* marker is appended to live_rows, whatever the windows and its scores are
C3_LiveMarkerIsLive ==
    [][ ( /\ Iterated
          /\ ReachesClassifier(ev')
          /\ HasLiveMarker(ev') )
        => ( /\ AppendedOne(live_rows, live_rows', "LIVE", ev')
             /\ UNCHANGED <<result_rows, upcoming_rows>> ) ]_vars

\* C4: the records all_csv_rows holds for one league carry pairwise
\* different non-empty idEvent, and an iteration on an event whose id the
\* scan of the league has already seen changes no bucket and not the tally
C4_OneRecordPerId ==
    /\ [](\A i, j \in 1..Len(all_csv_rows) :
            ( /\ i # j
              /\ all_csv_rows[i].league = all_csv_rows[j].league
              /\ all_csv_rows[i].idEvent # "" )
            => all_csv_rows[i].idEvent # all_csv_rows[j].idEvent)
    /\ [][ ( /\ Iterated
             /\ OrEmpty(ev'.idEvent) # ""
             /\ OrEmpty(ev'.idEvent) \in seen_event_ids )
           => UNCHANGED buckets ]_vars

\* C4 witness: two dates were fetched for the league; the first event "e1"
\* became a LIVE record; the second event, also "e1", has both scores and a
\* kickoff in the results window, and left that one record alone
C4_Witness ==
    /\ cpc \in {"events", "day", "league"}
    /\ di = 2
    /\ budget = MaxEvents - 2
    /\ ev.idEvent = Some("e1")
    /\ "e1" \in seen_event_ids
    /\ BothScoresPresent(ev)
    /\ EvKickoff(ev) # None
    /\ results_start_utc <= Val(EvKickoff(ev))
    /\ Val(EvKickoff(ev)) <= results_end_utc
    /\ Len(all_csv_rows) = 1
    /\ all_csv_rows[1].idEvent = "e1"
    /\ all_csv_rows[1].type = "LIVE"
    /\ result_rows = <<>>
    /\ total_eval = 0

\* C6 (as claimed): a run on a run day in which no provider call of the
\* collector failed to return has, once main is over, handed the digest to
\* send_telegram_chunks
C6_RunDayReachesDigest ==
    ( /\ mpc \in {"done", "failed"}
      /\ wd \in RUN_DAYS
      /\ cpc # "raised" )
    => \E i \in 1..Len(sent) : sent[i] = "digest"

\* C7 (as claimed): no failure of a table fetch or of an events fetch ends
\* the collector; it goes on to the next date or league
C7_FetchFailureDoesNotAbort == cpc # "raised"

Count(rows, r) == Cardinality({i \in 1..Len(rows) : rows[i] = r})

\* C8: the events iterated so far have made at most one record each; every
\* record of a bucket has the type of the bucket; all_csv_rows holds exactly
\* the records of the three buckets, each as often as they do
C8_ExactlyOneBucket ==
    /\ mpc = "none" => Len(all_csv_rows) <= MaxEvents - budget
    /\ \A i \in 1..Len(result_rows) : result_rows[i].type = "RESULT"
    /\ \A i \in 1..Len(live_rows) : live_rows[i].type = "LIVE"
    /\ \A i \in 1..Len(upcoming_rows) : upcoming_rows[i].type = "UPCOMING"
    /\ \A i \in 1..Len(all_csv_rows) :
          /\ all_csv_rows[i].type \in {"RESULT", "LIVE", "UPCOMING"}
          /\ Count(all_csv_rows, all_csv_rows[i])
               = Count(result_rows, all_csv_rows[i])
                 + Count(live_rows, all_csv_rows[i])
                 + Count(upcoming_rows, all_csv_rows[i])
    /\ Len(all_csv_rows) = Len(result_rows) + Len(live_rows) + Len(upcoming_rows)

\* C8 witness: two events were iterated and made a RESULT and an UPCOMING
\* record, which all_csv_rows holds too
C8_Witness ==
    /\ budget = MaxEvents - 2
    /\ Len(result_rows) = 1
    /\ Len(upcoming_rows) = 1
    /\ live_rows = <<>>
    /\ Len(all_csv_rows) = 2

\* C9: total_eval is the number of RESULT records, correct_eval the number
\* of those whose hit is YES, and 0 <= correct_eval <= total_eval; a step
\* that adds no RESULT record leaves both alone
C9_TallyCountsResults ==
    /\ [](/\ total_eval = Len(result_rows)
          /\ correct_eval
               = Cardinality({i \in 1..Len(result_rows) : result_rows[i].hit = "YES"})
          /\ 0 <= correct_eval
          /\ correct_eval <= total_eval)
    /\ [][Len(result_rows') = Len(result_rows)
            => UNCHANGED <<correct_eval, total_eval>>]_vars

\* C9 witness: two events were iterated; one became a RESULT record that is
\* a miss, the other a LIVE or UPCOMING record, and the tally is (0, 1)
C9_Witness ==
    /\ budget = MaxEvents - 2
    /\ Len(result_rows) = 1
    /\ result_rows[1].hit = "NO"
    /\ Len(live_rows) + Len(upcoming_rows) = 1
    /\ total_eval = 1
    /\ correct_eval = 0

\* the event e with empty-string scores in place of null scores
WithEmptyScores(e) ==
    [e EXCEPT !.intHomeScore = Some(""), !.intAwayScore = Some("")]

\* C10 (as claimed): wherever the collector is about to iterate, an event
\* with null scores and the same event with empty-string scores take the
\* same step (the same bucket, or both are dropped)
C10_NullAndEmptyScoresAlike ==
    cpc = "events" =>
      \A e \in Events :
         (e.intHomeScore = None /\ e.intAwayScore = None)
         => StepOf(e, leagues_meta[lg].id, seen_event_ids, now_utc,
                   upcoming_start_utc, upcoming_end_utc,
                   results_start_utc, results_end_utc)
            = StepOf(WithEmptyScores(e), leagues_meta[lg].id, seen_event_ids,
                     now_utc, upcoming_start_utc, upcoming_end_utc,
                     results_start_utc, results_end_utc)

\* what the spec calls finished: a finished marker, or both scores known
\* (an empty string is an unknown score)
Finished(e) == HasFinishedMarker(e) \/ BothScoresPresent(e)

InUpcoming(t) == upcoming_start_utc <= t /\ t <= upcoming_end_utc

InResults(t) == results_start_utc <= t /\ t <= results_end_utc

\* C11: an event that reaches the classification, is not finished, has no
\* live marker and kicks off outside [now - LIVE_GRACE_MINUTES, now] is
\* appended to upcoming_rows as an UPCOMING record when its kickoff lies in
\* [upcoming_start_utc, upcoming_end_utc], both ends included, and changes
\* no bucket otherwise
C11_UpcomingIffInWindow ==
    [][ ( /\ Iterated
          /\ ReachesClassifier(ev')
          /\ ~Finished(ev')
          /\ ~HasLiveMarker(ev')
          /\ ~InGrace(Val(EvKickoff(ev'))) )
        => IF InUpcoming(Val(EvKickoff(ev')))
           THEN /\ AppendedOne(upcoming_rows, upcoming_rows', "UPCOMING", ev')
                /\ UNCHANGED <<result_rows, live_rows>>
           ELSE UNCHANGED buckets ]_vars

\* C11 witness: the only event iterated has an empty status, no scores and
\* a kickoff 10 minutes after now inside the upcoming window, and is the one
\* UPCOMING record
C11_Witness ==
    /\ budget = MaxEvents - 1
    /\ ev.strStatus = Some("")
    /\ ev.intHomeScore = None
    /\ ev.intAwayScore = None
    /\ EvKickoff(ev) = Some(now_utc + 10)
    /\ InUpcoming(now_utc + 10)
    /\ Len(upcoming_rows) = 1
    /\ upcoming_rows[1].type = "UPCOMING"
    /\ upcoming_rows[1].status = ""
    /\ live_rows = <<>>
    /\ result_rows = <<>>

\* C12 (as claimed): an event that reaches the classification without a
\* live marker and is not finished is appended to live_rows exactly when its
\* kickoff lies in [now - LIVE_GRACE_MINUTES, now], both ends included, and
\* then not to upcoming_rows
C12_UnfinishedLiveIffInGrace ==
    [][ ( /\ Iterated
          /\ ReachesClassifier(ev')
          /\ ~HasLiveMarker(ev')
          /\ ~Finished(ev') )
        => IF InGrace(Val(EvKickoff(ev')))
           THEN /\ AppendedOne(live_rows, live_rows', "LIVE", ev')
                /\ UNCHANGED <<result_rows, upcoming_rows>>
           ELSE UNCHANGED live_rows ]_vars

\* C13: an event that reaches the classification, is finished with both
\* scores present and kicks off outside [results_start_utc, results_end_utc]
\* changes no bucket and not the tally, whatever its status, the grace
\* window and the upcoming window are
C13_FinishedOutsideResultsDropped ==
    [][ ( /\ Iterated
          /\ ReachesClassifier(ev')
          /\ Finished(ev')
          /\ BothScoresPresent(ev')
          /\ ~InResults(Val(EvKickoff(ev'))) )
        => UNCHANGED buckets ]_vars

\* C13 witness: the only event iterated is a "1st half" event with both
\* scores whose kickoff is inside the upcoming window and outside the
\* results window; it made no record
C13_Witness ==
    /\ budget = MaxEvents - 1
    /\ ev.strStatus = Some("1st half")
    /\ BothScoresPresent(ev)
    /\ ev.idLeague = None
    /\ EvKickoff(ev) # None
    /\ InUpcoming(Val(EvKickoff(ev)))
    /\ ~InResults(Val(EvKickoff(ev)))
    /\ all_csv_rows = <<>>
    /\ result_rows = <<>>
    /\ live_rows = <<>>
    /\ upcoming_rows = <<>>
    /\ total_eval = 0

\* the records the collector emits, bucket after bucket
EmittedRows == result_rows \o live_rows \o upcoming_rows

\* C14 (as claimed): when the collector returns, no two records of the
\* RESULT, LIVE and UPCOMING collections carry the same non-empty idEvent,
\* whatever leagues they were emitted under
C14_OneRecordPerIdAcrossLeagues ==
    cpc = "returned" =>
      \A i, j \in 1..Len(EmittedRows) :
         (i # j /\ EmittedRows[i].idEvent # "")
         => EmittedRows[i].idEvent # EmittedRows[j].idEvent

\* C14 (amended): when the collector returns, no two records of the
\* RESULT, LIVE and UPCOMING collections that were emitted under the same
\* league carry the same non-empty idEvent
C14_OneRecordPerIdPerLeague ==
    cpc = "returned" =>
      \A i, j \in 1..Len(EmittedRows) :
         ( /\ i # j
           /\ EmittedRows[i].idEvent # ""
           /\ EmittedRows[i].league = EmittedRows[j].league )
         => EmittedRows[i].idEvent # EmittedRows[j].idEvent

\* C14 witness: the collector returned after two day queries of one league
\* and two events; the last event is "e1" with both scores and a kickoff in
\* the results window, and the one record emitted is the LIVE record the
\* earlier "e1" made
C14_Witness ==
    /\ cpc = "returned"
    /\ di = 2
    /\ budget = MaxEvents - 2
    /\ ev.idEvent = Some("e1")
    /\ BothScoresPresent(ev)
    /\ EvKickoff(ev) # None
    /\ InResults(Val(EvKickoff(ev)))
    /\ Len(EmittedRows) = 1
    /\ EmittedRows[1].idEvent = "e1"
    /\ EmittedRows[1].type = "LIVE"

\* C15: pick_from_probs returns HOME when p_home is at least p_draw and
\* p_away; else AWAY when p_away is at least p_home and p_draw; else DRAW.
\* So a tie of HOME and AWAY at the top gives HOME, and DRAW is returned
\* only when p_draw is greater than both others
C15_PickTieBreak ==
    (fn.name = "pick_from_probs" /\ fn.ret # None) =>
      LET pHome == fn.args[1]
          pDraw == fn.args[2]
          pAway == fn.args[3]
          homeTop == pHome >= pDraw /\ pHome >= pAway
          awayTop == pAway >= pHome /\ pAway >= pDraw
      IN /\ homeTop => fn.ret = Some("HOME")
         /\ (~homeTop /\ awayTop) => fn.ret = Some("AWAY")
         /\ (~homeTop /\ ~awayTop) => fn.ret = Some("DRAW")
         /\ (pHome = pAway /\ pHome >= pDraw) => fn.ret = Some("HOME")
         /\ fn.ret = Some("DRAW") => (pDraw > pHome /\ pDraw > pAway)

\* C15 witness: pick_from_probs returned HOME on three equal values above 0
C15_Witness ==
    /\ fn.name = "pick_from_probs"
    /\ fn.args[1] > 0
    /\ fn.args[1] = fn.args[2]
    /\ fn.args[2] = fn.args[3]
    /\ fn.ret = Some("HOME")

\* a is not after b as "%Y-%m-%d %H:%M" strings
DisplayLeq(a, b) == a[1] < b[1] \/ (a[1] = b[1] /\ a[2] <= b[2])

\* max(p_home, p_draw, p_away) of a record
Confidence(r) ==
    IF r.p_home >= r.p_draw /\ r.p_home >= r.p_away THEN r.p_home
    ELSE IF r.p_draw >= r.p_away THEN r.p_draw
    ELSE r.p_away

AscendingByKickoff(rows) ==
    \A i, j \in 1..Len(rows) :
       i < j => DisplayLeq(rows[i].kickoff_london, rows[j].kickoff_london)

\* C16: when the collector has returned, result_rows and upcoming_rows are
\* in ascending order of kickoff_london, and live_rows is in descending
\* order of max(p_home, p_draw, p_away), records of equal confidence in
\* ascending order of kickoff_london
C16_SortedOnReturn ==
    cpc = "returned" =>
      /\ AscendingByKickoff(result_rows)
      /\ AscendingByKickoff(upcoming_rows)
      /\ \A i, j \in 1..Len(live_rows) :
            i < j =>
              \/ Confidence(live_rows[i]) > Confidence(live_rows[j])
              \/ /\ Confidence(live_rows[i]) = Confidence(live_rows[j])
                 /\ DisplayLeq(live_rows[i].kickoff_london,
                               live_rows[j].kickoff_london)

\* C16 witness: the collector returned two LIVE records; the more confident
\* one was emitted second (all_csv_rows keeps the order of emission) and
\* stands first in live_rows
C16_Witness ==
    /\ cpc = "returned"
    /\ Len(live_rows) = 2
    /\ Len(all_csv_rows) = 2
    /\ Confidence(live_rows[1]) > Confidence(live_rows[2])
    /\ all_csv_rows[1] = live_rows[2]
    /\ all_csv_rows[2] = live_rows[1]

C18_EmptyPrimaryRunsFallback ==
    ( /\ mpc \in {"done", "failed"}
      /\ cpc = "returned"
      /\ result_rows = <<>>
      /\ live_rows = <<>>
      /\ upcoming_rows = <<>> )
    => ( /\ calls = 2
         /\ \E i \in 1..Len(sent) : sent[i] = "digest" )

\* C19: an iteration on an event whose idLeague is present (not 0 after
\* safe_int) and is not the id of the league being scanned changes no
\* bucket, not the tally and not seen_event_ids
C19_ForeignLeagueRejected ==
    [][ ( /\ Iterated
          /\ safe_int(ev'.idLeague) # 0
          /\ safe_int(ev'.idLeague) # leagues_meta[lg].id )
        => UNCHANGED <<buckets, seen_event_ids>> ]_vars

\* C19 witness: the only event iterated under league 4328 carries idLeague
\* "4329", the id "e1", no scores and a kickoff inside the grace window; no
\* record was made and "e1" was not added to seen_event_ids
C19_Witness ==
    /\ cpc \in {"events", "day", "league"}
    /\ budget = MaxEvents - 1
    /\ lg > 0
    /\ leagues_meta[lg].id = 4328
    /\ ev.idLeague = Some("4329")
    /\ ev.idEvent = Some("e1")
    /\ ev.intHomeScore = None
    /\ EvKickoff(ev) # None
    /\ InGrace(Val(EvKickoff(ev)))
    /\ seen_event_ids = {}
    /\ all_csv_rows = <<>>
    /\ live_rows = <<>>
    /\ total_eval = 0

\* C20 (as claimed): a run of main that ended on an exception has sent a
\* message carrying the error to Telegram
C20_FailureReported ==
    mpc = "failed" => \E i \in 1..Len(sent) : sent[i] = "error"

\* the table of the scenario: Team A with 20 points and +10 from 10
\* matches, Team B with 10 points and 0 from 10
ScenarioTable ==
    << [strTeam |-> "Team A", intPlayed |-> Some("10"), intPoints |-> Some("20"),
        intGoalDifference |-> Some("10")],
       [strTeam |-> "Team B", intPlayed |-> Some("10"), intPoints |-> Some("10"),
        intGoalDifference |-> Some("0")] >>

\* C21: the mapping sportsdb_fetch_table_ratings returns has as keys
\* exactly the teams of the table with a non-empty name and played > 0,
\* each once, every rating within [1200, 1800] (in tenths), and is empty
\* when there is no table or no such row; on the table of the scenario the
\* rating of Team A is above 1500 and that of Team B below
C21_RatingsOfTable ==
    (fn.name = "sportsdb_fetch_table_ratings" /\ fn.ret # None) =>
      LET table == IF fn.args[1] = None THEN <<>> ELSE Val(fn.args[1])
          rt == Val(fn.ret)
          kept == { table[i].strTeam : i \in
                      { j \in 1..Len(table) :
                          table[j].strTeam # "" /\ safe_int(table[j].intPlayed) > 0 } }
          keys == { rt[i].team : i \in 1..Len(rt) }
      IN /\ keys = kept
         /\ Len(rt) = Cardinality(keys)
         /\ \A i \in 1..Len(rt) : 12000 <= rt[i].elo /\ rt[i].elo <= 18000
         /\ kept = {} => rt = <<>>
         /\ table = ScenarioTable =>
               \E a, b \in 1..Len(rt) :
                  /\ rt[a].team = "Team A"
                  /\ rt[b].team = "Team B"
                  /\ rt[a].elo > 15000
                  /\ 15000 > rt[b].elo

\* C21 witness: on the table of the scenario the function returned 1742.5
\* for Team A and 1257.5 for Team B
C21_Witness ==
    /\ fn.name = "sportsdb_fetch_table_ratings"
    /\ fn.args = <<Some(ScenarioTable)>>
    /\ fn.ret = Some(<< [team |-> "Team A", elo |-> 17425],
                        [team |-> "Team B", elo |-> 12575] >>)

C23_PickNeverDraw ==
    (fn.name = "result_row" /\ fn.ret # None) =>
      LET out == Val(fn.ret)
          e == fn.args[1]
      IN /\ out.probs[2] <= 240000000
         /\ out.probs[1] >= 380000000 \/ out.probs[3] >= 380000000
         /\ out.row.pick \in {"HOME", "AWAY"}
         /\ e.intHomeScore = e.intAwayScore =>
               /\ out.row.actual = "DRAW"
               /\ out.row.hit = "NO"
               /\ out.tally.correct = 0
               /\ out.tally.total = 1

\* C23 witness: the home team has the 1500 default and the away team 1555,
\* so that the home advantage levels them: probabilities 0.38, 0.24, 0.38,
\* pick HOME, and the 1-1 draw is a miss
C23_Witness ==
    /\ fn.name = "result_row"
    /\ fn.args[2] = <<[team |-> "Team B", elo |-> 15550]>>
    /\ fn.args[1].intHomeScore = Some("1")
    /\ fn.args[1].intAwayScore = Some("1")
    /\ fn.ret # None
    /\ Val(fn.ret).probs = <<380000000, 240000000, 380000000>>
    /\ Val(fn.ret).row.pick = "HOME"
    /\ Val(fn.ret).row.hit = "NO"
    /\ Val(fn.ret).tally = [correct |-> 0, total |-> 1]

\* C24: once main has left its start on a Monday, Tuesday or Wednesday it
\* is over, has sent the heartbeat and nothing else, has resolved no
\* league, built no date list and never called the collector; once it has
\* left its start on a Thursday to Sunday, dates is the Thursday, Friday,
\* Saturday and Sunday of the week (days 3, 4, 5, 6 from Monday), in order,
\* today among them, and no heartbeat was sent
C24_SkipOrThursdayToSunday ==
    /\ (mpc # "start" /\ wd \in {0, 1, 2}) =>
          /\ mpc = "done"
          /\ sent = <<"heartbeat">>
          /\ leagues_meta = <<>>
          /\ dates = <<>>
          /\ calls = 0
          /\ cpc = "idle"
    /\ (mpc # "start" /\ wd \in {3, 4, 5, 6}) =>
          /\ dates = <<3, 4, 5, 6>>
          /\ \E i \in 1..Len(dates) : dates[i] = NowLondon(wd, tod) \div MinutesPerDay
          /\ \A i \in 1..Len(sent) : sent[i] # "heartbeat"
          /\ calls >= 1

\* C24 witness: a Sunday run is in its primary pass, fetching the last of
\* the four dates of a league
C24_Witness ==
    /\ mpc = "primary"
    /\ wd = 6
    /\ dates = <<3, 4, 5, 6>>
    /\ cpc = "day"
    /\ di = 3
    /\ calls = 1

\* the chunks built so far are not empty and not longer than
\* TELEGRAM_MAX_LEN; inside the while loop the remaining text does not
\* start with whitespace; the messages posted are the chunks in order,
\* numbered from 1 of the number of chunks; after the return every chunk was
\* posted, and none at all exactly when the text given holds whitespace only
C25_ChunksState ==
    /\ \A i \in 1..Len(chunks) :
          Len(chunks[i]) >= 1 /\ Len(chunks[i]) <= TELEGRAM_MAX_LEN
    /\ spc = "loop" => (text # <<>> /\ text[1] \notin {" ", "\n"})
    /\ Len(posted) <= Len(chunks)
    /\ \A i \in 1..Len(posted) :
          posted[i] = [chunk |-> chunks[i], part |-> i, of |-> Len(chunks)]
    /\ spc = "done" =>
          /\ Len(posted) = Len(chunks)
          /\ (posted = <<>>) <=>
                (\A i \in 1..Len(fn.args[1]) : fn.args[1][i] \in {" ", "\n"})

\* an iteration of the while loop cuts at least one character off and
\* leaves a shorter text
C25_ChunksCutStep ==
    (spc = "loop" /\ spc' = "loop") =>
        /\ Len(chunks') = Len(chunks) + 1
        /\ Len(chunks'[Len(chunks')]) >= 1
        /\ Len(text') < Len(text)

\* C25: send_telegram_chunks returns on every text; every iteration of its
\* while loop cuts at 1 or more characters and leaves a shorter text that
\* does not start with whitespace; every chunk is non-empty and at most
\* TELEGRAM_MAX_LEN long; the chunks are posted in order as parts 1..n of
\* n; nothing is posted for an empty or whitespace-only text.
C25_ChunksTerminate ==
    /\ []C25_ChunksState
    /\ [][C25_ChunksCutStep]_vars
    /\ <>(spc = "done")

\* C25 witness: the function has returned after posting three parts, the
\* first cut at a newline before TELEGRAM_MAX_LEN and the rest of the text
\* after it having lost its leading whitespace
C25_Witness ==
    /\ spc = "done"
    /\ fn.args[1] = <<"a", "\n", " ", "a", "a", "a", "a">>
    /\ Len(posted) = 3
    /\ posted[1] = [chunk |-> <<"a">>, part |-> 1, of |-> 3]
    /\ posted[2] = [chunk |-> <<"a", "a", "a">>, part |-> 2, of |-> 3]
    /\ posted[3] = [chunk |-> <<"a">>, part |-> 3, of |-> 3]

====
